---- MODULE Spec2Model ----
(***************************************************************************)
(* A model of packages/realm/src/OrderedCollection.ts: the array-like      *)
(* facade over a binding Results object (indexed-access proxy, iterators,  *)
(* length, set), the change-notification callback with its deferred        *)
(* rethrow, and the sorted() descriptor normalisation.                      *)
(***************************************************************************)
EXTENDS Integers, Sequences, FiniteSets, TLC

VARIABLES
    results,        \* this.results: the binding Results, a sequence of native values
    ownProps,       \* own property keys of the proxy target, in insertion order
    iter,           \* the iterator object most recently returned by keys()/values()
    obs,            \* the last operation on the facade and what it returned or threw
    listeners,      \* callbacks registered through addNotificationCallback, in order
    pc,             \* "idle" or "delivering": is a notification delivery on the stack
    payload,        \* the raw (range-encoded) changes of the current delivery
    cycleListeners, \* the callbacks the current delivery invokes, in order
    pos,            \* index into cycleListeners of the next callback to invoke
    invoked,        \* the invocations of the current delivery, in order
    immediates,     \* the setImmediate queue: errors waiting to be rethrown
    surfaced,       \* errors rethrown by a setImmediate task, in order
    propagated,     \* an error escaped the callback into the delivering caller
    errSeq,         \* number of listener errors raised so far
    removed,        \* the listeners removed and not added again since
    sortLog,        \* the last sorted() calls: arguments and what sortByNames got
    classHelpers,   \* this.classHelpers is set: the elements are objects of a class
    agg,            \* the last min/max/sum/avg call: what the binding gave, what came back
    xform           \* the map/filter/forEach/... call that is running, or ran last

vars == <<results, ownProps, iter, obs, listeners, pc, payload, cycleListeners,
          pos, invoked, immediates, surfaced, propagated, errSeq, removed, sortLog,
          classHelpers, agg, xform>>

facadeVars == <<results, ownProps, iter, obs>>
aggVars == <<classHelpers, agg>>

notifyVars == <<listeners, pc, payload, cycleListeners, pos, invoked,
                immediates, surfaced, propagated, errSeq, removed>>

(***************************************************************************)
(* Bounds of the model.                                                    *)
(***************************************************************************)
MaxLen == 3
MaxErrors == 3
MaxRangeEnd == 6
MaxDescriptors == 2

\* two distinct native values are enough to tell elements apart
NativeValues == {1, 2}

(***************************************************************************)
(* Sequence helpers.                                                       *)
(***************************************************************************)
Range(s) == {s[i] : i \in DOMAIN s}

InsertAt(s, i, v) == SubSeq(s, 1, i) \o <<v>> \o SubSeq(s, i + 1, Len(s))

RemoveAt(s, i) == SubSeq(s, 1, i - 1) \o SubSeq(s, i + 1, Len(s))

NoDuplicates(s) == \A i, j \in DOMAIN s : i # j => s[i] # s[j]

(***************************************************************************)
(* Property keys.  A string key is the sequence of its characters, so that *)
(* Number.parseInt and String(index) are computed, not assumed.            *)
(***************************************************************************)
Str(chars) == [type |-> "string", chars |-> chars]

Sym(name) == [type |-> "symbol", chars |-> <<name>>]

DigitChars == <<"0", "1", "2", "3", "4", "5", "6", "7", "8", "9">>

IsDigit(c) == \E d \in DOMAIN DigitChars : DigitChars[d] = c

DigitVal(c) == (CHOOSE d \in DOMAIN DigitChars : DigitChars[d] = c) - 1

RECURSIVE DigitsOf(_)
DigitsOf(n) ==
    IF n < 10 THEN <<DigitChars[n + 1]>>
    ELSE DigitsOf(n \div 10) \o <<DigitChars[(n % 10) + 1]>>

\* String(index) for an integer index
IndexToString(n) == IF n < 0 THEN <<"-">> \o DigitsOf(-n) ELSE DigitsOf(n)

RECURSIVE SkipWhitespace(_)
SkipWhitespace(cs) ==
    IF cs # <<>> /\ Head(cs) = " " THEN SkipWhitespace(Tail(cs)) ELSE cs

RECURSIVE DigitPrefix(_)
DigitPrefix(cs) ==
    IF cs # <<>> /\ IsDigit(Head(cs)) THEN <<Head(cs)>> \o DigitPrefix(Tail(cs))
    ELSE <<>>

RECURSIVE DigitsValue(_, _)
DigitsValue(ds, acc) ==
    IF ds = <<>> THEN acc ELSE DigitsValue(Tail(ds), acc * 10 + DigitVal(Head(ds)))

\* Number.parseInt(prop, 10): leading whitespace, an optional sign, then the
\* longest prefix of decimal digits; NaN when there is no digit.
ParseInt(chars) ==
    LET trimmed == SkipWhitespace(chars)
        signed == trimmed # <<>> /\ Head(trimmed) \in {"-", "+"}
        body == IF signed THEN Tail(trimmed) ELSE trimmed
        ds == DigitPrefix(body)
        mag == DigitsValue(ds, 0)
    IN  IF ds = <<>> THEN [nan |-> TRUE, n |-> 0]
        ELSE [nan |-> FALSE,
              n |-> IF signed /\ Head(trimmed) = "-" THEN 0 - mag ELSE mag]

(***************************************************************************)
(* What an operation on the facade returns.                                *)
(***************************************************************************)
Absent == [kind |-> "absent"]

Thrown(msg) == [kind |-> "error", msg |-> msg]

Returned(flag) == [kind |-> "boolean", flag |-> flag]

NumberValue(n) == [kind |-> "number", n |-> n]

Member(prop) == [kind |-> "member", name |-> prop]

NoKey == Str(<<>>)

\* before: the Results as they were when the operation was called
Observation(op, key, index, result, routed, before) ==
    [op |-> op, key |-> key, index |-> index, result |-> result, routed |-> routed,
     before |-> before]

(***************************************************************************)
(* The external collaborators: the binding Results and the type helpers.   *)
(***************************************************************************)
\* helpers.fromBinding: a native value becomes a host value
FromBinding(v) == [kind |-> "host", native |-> v]

\* results.size()
Size(r) == Len(r)

\* helpers.get(results, index); the code never calls it outside the bounds, where 0
\* stands for whatever the binding does
HelpersGet(r, index) ==
    IF index >= 0 /\ index < Len(r) THEN r[index + 1] ELSE 0

\* results.snapshot(): a point-in-time copy that later mutations do not touch
Snapshot(r) == r

(***************************************************************************)
(* The proxy target: its own properties and what it inherits.              *)
(***************************************************************************)
\* own properties made non-writable, non-configurable by the constructor
DeclaredProps ==
    <<Str(<<"r", "e", "a", "l", "m">>), Str(<<"r", "e", "s", "u", "l", "t", "s">>),
      Str(<<"h", "e", "l", "p", "e", "r", "s">>),
      Str(<<"c", "l", "a", "s", "s", "H", "e", "l", "p", "e", "r", "s">>)>>

LengthKey == Str(<<"l", "e", "n", "g", "t", "h">>)

GetKey == Str(<<"g", "e", "t">>)

IteratorSymbol == Sym("Symbol.iterator")

\* the accessors of the prototype that have a getter and no setter
ProtoAccessors == {LengthKey}

\* methods of the prototype (writable data properties of the prototype)
ProtoMethods == {GetKey, IteratorSymbol}

\* Reflect.has(target, prop): own or inherited
ReflectHas(own, prop) == prop \in Range(own) \cup ProtoAccessors \cup ProtoMethods

\* get length()
LengthStale(r) == IF iter.kind = "none" THEN Size(r) ELSE iter.size
Length(r) == Size(r)

\* get(index)
GetOffByOne(r, index) == FromBinding(HelpersGet(r, index + 1))
Get(r, index) == FromBinding(HelpersGet(r, index))

\* set(index, value): the outcome and the Results it leaves behind
SetWrites(r, index, value) ==
    IF index >= 0 /\ index < Len(r)
    THEN [result |-> Returned(TRUE), results |-> [r EXCEPT ![index + 1] = value]]
    ELSE [result |-> Thrown("Assigning into a collection is not support"), results |-> r]
Set(r, index, value) ==
    [result |-> Thrown("Assigning into a collection is not support"), results |-> r]

\* Reflect.get(target, prop) for a property the target has
ReflectGet(r, prop) ==
    IF prop = LengthKey THEN NumberValue(Length(r)) ELSE Member(prop)

\* PROXY_HANDLER.get
ProxyHandlerGetNoBound(r, own, prop) ==
    IF ReflectHas(own, prop) THEN ReflectGet(r, prop)
    ELSE IF prop.type = "string"
    THEN LET index == ParseInt(prop.chars)
         IN  IF ~index.nan /\ index.n >= 0 THEN Get(r, index.n) ELSE Absent
    ELSE Absent
ProxyHandlerGet(r, own, prop) ==
    IF ReflectHas(own, prop) THEN ReflectGet(r, prop)
    ELSE IF prop.type = "string"
    THEN LET index == ParseInt(prop.chars)
         IN  IF ~index.nan /\ index.n >= 0 /\ index.n < Length(r)
             THEN Get(r, index.n)
             ELSE Absent
    ELSE Absent

DEFAULT_PROPERTY_DESCRIPTOR ==
    [kind |-> "descriptor", configurable |-> TRUE, enumerable |-> TRUE, writable |-> TRUE]

\* Reflect.getOwnPropertyDescriptor(target, prop) when Reflect.has(target, prop)
ReflectGetOwnPropertyDescriptor(own, prop) ==
    IF prop \in Range(DeclaredProps)
    THEN [kind |-> "descriptor", configurable |-> FALSE, enumerable |-> FALSE,
          writable |-> FALSE]
    ELSE IF prop \in Range(own) THEN DEFAULT_PROPERTY_DESCRIPTOR
    ELSE Absent

\* PROXY_HANDLER.getOwnPropertyDescriptor
ProxyHandlerGetOwnPropertyDescriptor(r, own, prop) ==
    IF ReflectHas(own, prop) THEN ReflectGetOwnPropertyDescriptor(own, prop)
    ELSE IF prop.type = "string"
    THEN LET index == ParseInt(prop.chars)
         IN  IF ~index.nan /\ index.n < Length(r)
             THEN DEFAULT_PROPERTY_DESCRIPTOR
             ELSE Absent
    ELSE Absent

\* Reflect.set(target, prop, value, receiver) with the proxy as receiver
ReflectSet(r, own, prop) ==
    IF prop \in Range(DeclaredProps) \/ (prop \in ProtoAccessors /\ prop \notin Range(own))
    THEN [result |-> Returned(FALSE), ownProps |-> own]
    ELSE IF ProxyHandlerGetOwnPropertyDescriptor(r, own, prop) = Absent
    THEN [result |-> Returned(TRUE), ownProps |-> Append(own, prop)]
    ELSE [result |-> Returned(TRUE), ownProps |-> own]

\* PROXY_HANDLER.set
ProxyHandlerSetUpperBound(r, own, prop, value) ==
    LET index == ParseInt(prop.chars)
        fall == ReflectSet(r, own, prop)
    IN  IF prop.type = "string" /\ ~index.nan /\ index.n >= 0 /\ index.n < Length(r)
        THEN LET out == Set(r, index.n, value)
             IN  [result |-> IF out.result.kind = "error" THEN out.result
                             ELSE Returned(TRUE),
                  results |-> out.results, ownProps |-> own, routed |-> TRUE]
        ELSE IF prop.type = "string" /\ ~index.nan /\ index.n < 0
        THEN [result |-> Thrown("Index cannot be less than zero."),
              results |-> r, ownProps |-> own, routed |-> FALSE]
        ELSE [result |-> fall.result, results |-> r, ownProps |-> fall.ownProps,
              routed |-> FALSE]
ProxyHandlerSet(r, own, prop, value) ==
    LET index == ParseInt(prop.chars)
        fall == ReflectSet(r, own, prop)
    IN  IF prop.type = "string" /\ ~index.nan /\ index.n >= 0
        THEN LET out == Set(r, index.n, value)
             IN  [result |-> IF out.result.kind = "error" THEN out.result
                             ELSE Returned(TRUE),
                  results |-> out.results, ownProps |-> own, routed |-> TRUE]
        ELSE IF prop.type = "string" /\ ~index.nan /\ index.n < 0
        THEN [result |-> Thrown("Index cannot be less than zero."),
              results |-> r, ownProps |-> own, routed |-> FALSE]
        ELSE [result |-> fall.result, results |-> r, ownProps |-> fall.ownProps,
              routed |-> FALSE]

(***************************************************************************)
(* keys() and values(): the iterator objects.                              *)
(***************************************************************************)
NoIter ==
    [kind |-> "none", snapshot |-> <<>>, size |-> 0, index |-> 0, yielded |-> <<>>,
     done |-> FALSE, origin |-> <<>>]

\* keys(): size is read once, when the iterator is made
Keys(r) ==
    [kind |-> "keys", snapshot |-> <<>>, size |-> Size(r), index |-> 0,
     yielded |-> <<>>, done |-> FALSE, origin |-> r]

\* next() of the iterator keys() returns
KeysNext(it) ==
    IF it.index < it.size
    THEN [value |-> NumberValue(it.index), done |-> FALSE, index |-> it.index + 1]
    ELSE [value |-> Absent, done |-> TRUE, index |-> it.index]

\* the getter of values(): reads the snapshot
ValuesGetterLive(snapshot, index) == FromBinding(HelpersGet(results, index))
ValuesGetter(snapshot, index) == FromBinding(HelpersGet(snapshot, index))

\* values(): snapshot, then keys()
Values(r) ==
    [kind |-> "values", snapshot |-> Snapshot(r), size |-> Keys(r).size, index |-> 0,
     yielded |-> <<>>, done |-> FALSE, origin |-> r]

\* next() of the iterator values() returns
ValuesNext(it) ==
    LET k == KeysNext(it)
    IN  IF k.done THEN k
        ELSE [value |-> ValuesGetter(it.snapshot, k.value.n), done |-> FALSE,
              index |-> k.index]

\* [...target.keys()]
RECURSIVE SpreadKeys(_)
SpreadKeys(it) ==
    LET k == KeysNext(it)
    IN  IF k.done THEN <<>>
        ELSE <<k.value.n>> \o SpreadKeys([it EXCEPT !.index = k.index])

\* Reflect.ownKeys(target): string keys in insertion order, then symbols
ReflectOwnKeys(own) ==
    SelectSeq(own, LAMBDA k : k.type = "string")
        \o SelectSeq(own, LAMBDA k : k.type = "symbol")

\* PROXY_HANDLER.ownKeys
ProxyHandlerOwnKeysUpToLength(r, own) ==
    ReflectOwnKeys(own) \o [i \in 1..(Size(r) + 1) |-> Str(IndexToString(i - 1))]
ProxyHandlerOwnKeys(r, own) ==
    LET ks == SpreadKeys(Keys(r))
    IN  ReflectOwnKeys(own) \o [i \in 1..Len(ks) |-> Str(IndexToString(ks[i]))]

(***************************************************************************)
(* The keys the model reads and writes through the proxy.                  *)
(***************************************************************************)
\* the key "i" of a one-digit index, written out
IndexKey(i) == Str(<<DigitChars[i + 1]>>)

RealmKey == DeclaredProps[1]

MinusOneKey == Str(<<"-", "1">>)

OneAbcKey == Str(<<"1", "a", "b", "c">>)

AbcKey == Str(<<"a", "b", "c">>)

SpaceOneKey == Str(<<" ", "1">>)

TenKey == Str(<<"1", "0">>)

PropKeys ==
    {IndexKey(i) : i \in 0..MaxLen}
        \cup {MinusOneKey, OneAbcKey, AbcKey, SpaceOneKey, TenKey, LengthKey, GetKey,
              RealmKey, IteratorSymbol}

WriteKeys == PropKeys \ {GetKey, IteratorSymbol}

RECURSIVE SeqsUpTo(_)
SeqsUpTo(n) ==
    IF n = 0 THEN {<<>>}
    ELSE SeqsUpTo(n - 1) \cup {Append(s, v) : s \in {t \in SeqsUpTo(n - 1) : Len(t) = n - 1}, v \in NativeValues}

Mutated == Observation("mutate", NoKey, 0, Absent, FALSE, <<>>)

(***************************************************************************)
(* The Backing Collection changes under the facade.                        *)
(***************************************************************************)
BackingInsert ==
    /\ Len(results) < MaxLen
    /\ \E i \in 0..Len(results), v \in NativeValues : results' = InsertAt(results, i, v)
    /\ obs' = Mutated
    /\ UNCHANGED <<ownProps, iter>>

BackingDelete ==
    /\ \E i \in 1..Len(results) : results' = RemoveAt(results, i)
    /\ obs' = Mutated
    /\ UNCHANGED <<ownProps, iter>>

BackingReplace ==
    /\ \E i \in 1..Len(results) :
          \E v \in NativeValues \ {results[i]} : results' = [results EXCEPT ![i] = v]
    /\ obs' = Mutated
    /\ UNCHANGED <<ownProps, iter>>

(***************************************************************************)
(* Operations on the facade.                                               *)
(***************************************************************************)
\* collection[prop]
IndexedRead ==
    /\ \E prop \in PropKeys :
          obs' = Observation("proxyGet", prop, 0,
                             ProxyHandlerGet(results, ownProps, prop), FALSE, results)
    /\ UNCHANGED <<results, ownProps, iter>>

\* collection[prop] = value
IndexedWrite ==
    /\ \E prop \in WriteKeys, value \in NativeValues :
          LET out == ProxyHandlerSet(results, ownProps, prop, value)
          IN  /\ results' = out.results
              /\ ownProps' = out.ownProps
              /\ obs' = Observation("proxySet", prop, 0, out.result, out.routed, results)
    /\ UNCHANGED iter

\* collection.get(index), inside the bounds
CallGet ==
    /\ \E index \in 0..(Len(results) - 1) :
          obs' = Observation("get", NoKey, index, Get(results, index), FALSE, results)
    /\ UNCHANGED <<results, ownProps, iter>>

\* collection.set(index, value)
CallSet ==
    /\ \E index \in (0 - 1)..MaxLen, value \in NativeValues :
          LET out == Set(results, index, value)
          IN  /\ results' = out.results
              /\ obs' = Observation("set", NoKey, index, out.result, TRUE, results)
    /\ UNCHANGED <<ownProps, iter>>

\* collection.length
ReadLength ==
    /\ obs' = Observation("length", LengthKey, 0,
                          ProxyHandlerGet(results, ownProps, LengthKey), FALSE, results)
    /\ UNCHANGED <<results, ownProps, iter>>

\* Reflect.ownKeys(collection)
OwnKeys ==
    /\ obs' = Observation("ownKeys", NoKey, 0,
                          [kind |-> "keys", keys |-> ProxyHandlerOwnKeys(results, ownProps)],
                          FALSE, results)
    /\ UNCHANGED <<results, ownProps, iter>>

\* Reflect.getOwnPropertyDescriptor(collection, prop)
GetOwnPropertyDescriptor ==
    /\ \E prop \in PropKeys :
          obs' = Observation("getOwnPropertyDescriptor", prop, 0,
                             ProxyHandlerGetOwnPropertyDescriptor(results, ownProps, prop),
                             FALSE, results)
    /\ UNCHANGED <<results, ownProps, iter>>

\* collection.keys()
CallKeys ==
    /\ iter' = Keys(results)
    /\ UNCHANGED <<results, ownProps, obs>>

\* collection.values() and collection[Symbol.iterator]()
CallValues ==
    /\ iter' = Values(results)
    /\ UNCHANGED <<results, ownProps, obs>>

\* iterator.next()
IteratorNext ==
    /\ iter.kind # "none"
    /\ ~iter.done
    /\ LET n == IF iter.kind = "keys" THEN KeysNext(iter) ELSE ValuesNext(iter)
       IN  iter' = [iter EXCEPT !.index = n.index,
                                !.done = n.done,
                                !.yielded = IF n.done THEN @ ELSE Append(@, n.value)]
    /\ UNCHANGED <<results, ownProps, obs>>

(***************************************************************************)
(* Change notifications: the callback the constructor hands to             *)
(* results.addNotificationCallback for every listener.                     *)
(***************************************************************************)
ListenerIds == {"a", "b", "c"}

\* the indices start .. end-1 of one half-open range
RangeIndices(range) == [i \in 1..(range[2] - range[1]) |-> range[1] + i - 1]

\* unwind(ranges): the indices of every range, in the order of the ranges
RECURSIVE unwind(_)
unwind(ranges) ==
    IF ranges = <<>> THEN <<>> ELSE RangeIndices(Head(ranges)) \o unwind(Tail(ranges))

\* the CollectionChangeSet built from the raw changes
ChangeSetMixed(changes) ==
    [deletions |-> unwind(changes.deletions),
     insertions |-> unwind(changes.insertions),
     oldModifications |-> unwind(changes.modifications),
     newModifications |-> unwind(changes.modifications)]
ChangeSet(changes) ==
    [deletions |-> unwind(changes.deletions),
     insertions |-> unwind(changes.insertions),
     oldModifications |-> unwind(changes.modifications),
     newModifications |-> unwind(changes.modificationsNew)]

\* the callback: try { callback(this, changeSet) } catch (err) { setImmediate(throw) }
\* raises: does the listener throw.  scheduled: a rethrow was put on the
\* setImmediate queue.  thrown: the error left the callback.
NotificationCallbackRethrows(listener, raises, changes) ==
    [listener |-> listener, changes |-> ChangeSet(changes), raised |-> raises,
     scheduled |-> FALSE, thrown |-> raises]
NotificationCallbackSwallows(listener, raises, changes) ==
    [listener |-> listener, changes |-> ChangeSet(changes), raised |-> raises,
     scheduled |-> FALSE, thrown |-> FALSE]
NotificationCallback(listener, raises, changes) ==
    [listener |-> listener, changes |-> ChangeSet(changes), raised |-> raises,
     scheduled |-> raises, thrown |-> FALSE]

EmptyChanges ==
    [deletions |-> <<>>, insertions |-> <<>>, modifications |-> <<>>,
     modificationsNew |-> <<>>]

\* ascending, non-overlapping, non-empty half-open ranges inside lo .. hi
RECURSIVE RangeLists(_, _)
RangeLists(lo, hi) ==
    {<<>>} \cup
    UNION {UNION {{<<<<a, b>>>> \o rest : rest \in RangeLists(b, hi)} : b \in (a + 1)..hi}
           : a \in lo..(hi - 1)}

\* the raw changes the deliveries of the model carry
NotifyPayloads ==
    {[deletions |-> <<<<0, 1>>>>, insertions |-> <<<<0, 2>>>>,
      modifications |-> <<<<1, 2>>>>, modificationsNew |-> <<<<2, 3>>>>],
     [deletions |-> <<>>, insertions |-> <<<<0, 1>>, <<2, 3>>>>,
      modifications |-> <<>>, modificationsNew |-> <<>>]}

ChangeFields == {"deletions", "insertions", "modifications", "modificationsNew"}

\* raw changes for the translation alone: one list ranges over every range
\* list up to MaxRangeEnd, the three others share a short one
TranslatePayloads ==
    {[f \in ChangeFields |-> IF f = slot THEN long ELSE short] :
        slot \in ChangeFields, long \in RangeLists(0, MaxRangeEnd),
        short \in RangeLists(0, 2)}

\* observer->subscribe(subscriber)
Subscribe(subs, callback) ==
    IF callback \in Range(subs) THEN subs ELSE Append(subs, callback)

\* observer->remove_subscription(subscriber): the subscriptions of that callback go
RemoveSubscription(subs, callback) == SelectSeq(subs, LAMBDA s : s # callback)

\* observer->unsubscribe_all()
UnsubscribeAll(subs) == <<>>

\* remove_listener: the argument is the callback whose subscription is removed
remove_listener_subscribes(subs, callback) == Subscribe(subs, callback)
remove_listener(subs, callback) == RemoveSubscription(subs, callback)

\* remove_all_listeners
remove_all_listeners(subs) == UnsubscribeAll(subs)

\* addListener(callback): registers the callback with the binding
AddListener ==
    /\ pc = "idle"
    /\ \E l \in ListenerIds \ Range(listeners) :
          /\ listeners' = Append(listeners, l)
          /\ removed' = removed \ {l}
    /\ UNCHANGED <<pc, payload, cycleListeners, pos, invoked, immediates, surfaced,
                   propagated, errSeq>>

\* removeListener(callback), between deliveries
RemoveListener ==
    /\ pc = "idle"
    /\ \E l \in Range(listeners) :
          /\ listeners' = remove_listener(listeners, l)
          /\ removed' = removed \cup {l}
    /\ UNCHANGED <<pc, payload, cycleListeners, pos, invoked, immediates, surfaced,
                   propagated, errSeq>>

\* removeAllListeners(), between deliveries
RemoveAllListeners ==
    /\ pc = "idle"
    /\ listeners # <<>>
    /\ listeners' = remove_all_listeners(listeners)
    /\ removed' = removed \cup Range(listeners)
    /\ UNCHANGED <<pc, payload, cycleListeners, pos, invoked, immediates, surfaced,
                   propagated, errSeq>>

\* the binding starts to deliver one set of raw changes
BeginNotify ==
    /\ pc = "idle"
    /\ ~propagated
    /\ listeners # <<>>
    /\ \E changes \in NotifyPayloads : payload' = changes
    /\ cycleListeners' = listeners
    /\ pos' = 1
    /\ invoked' = <<>>
    /\ pc' = "delivering"
    /\ UNCHANGED <<listeners, immediates, surfaced, propagated, errSeq, removed>>

\* the binding calls the next registered callback
Deliver ==
    /\ pc = "delivering"
    /\ pos <= Len(cycleListeners)
    /\ \E raises \in {r \in BOOLEAN : r => errSeq < MaxErrors} :
          LET out == NotificationCallback(cycleListeners[pos], raises, payload)
          IN  /\ invoked' = Append(invoked, [listener |-> out.listener,
                                             changes |-> out.changes,
                                             raised |-> out.raised])
              /\ errSeq' = IF raises THEN errSeq + 1 ELSE errSeq
              /\ immediates' = IF out.scheduled THEN Append(immediates, errSeq + 1)
                               ELSE immediates
              /\ propagated' = (propagated \/ out.thrown)
              /\ pc' = IF out.thrown THEN "idle" ELSE pc
              /\ pos' = IF out.thrown THEN pos ELSE pos + 1
    /\ UNCHANGED <<listeners, payload, cycleListeners, surfaced, removed>>

\* every callback has returned: the delivery returns to the binding
EndNotify ==
    /\ pc = "delivering"
    /\ pos > Len(cycleListeners)
    /\ pc' = "idle"
    /\ UNCHANGED <<listeners, payload, cycleListeners, pos, invoked, immediates,
                   surfaced, propagated, errSeq, removed>>

\* the event loop runs one setImmediate task: () => { throw err }
RunImmediate ==
    /\ pc = "idle"
    /\ immediates # <<>>
    /\ surfaced' = Append(surfaced, Head(immediates))
    /\ immediates' = Tail(immediates)
    /\ UNCHANGED <<listeners, pc, payload, cycleListeners, pos, invoked, propagated,
                   errSeq, removed>>

(***************************************************************************)
(* sorted(): the arguments a caller may pass, and what sortByNames gets.   *)
(***************************************************************************)
Undefined == [t |-> "undefined"]

BooleanArg(b) == [t |-> "boolean", b |-> b]

StringArg(s) == [t |-> "string", s |-> s]

PairArg(s, b) == [t |-> "pair", s |-> s, b |-> b]

ArrayArg(items) == [t |-> "array", items |-> items]

NumberArg == [t |-> "number"]

PropertyPaths == {"self", "name"}

SortDescriptors ==
    {StringArg(p) : p \in PropertyPaths}
        \cup {PairArg(p, d) : p \in PropertyPaths, d \in BOOLEAN}

RECURSIVE DescriptorLists(_)
DescriptorLists(n) ==
    IF n = 0 THEN {<<>>}
    ELSE DescriptorLists(n - 1)
            \cup {Append(l, d) : l \in {m \in DescriptorLists(n - 1) : Len(m) = n - 1},
                                 d \in SortDescriptors}

SortArg0 ==
    {Undefined, NumberArg} \cup {BooleanArg(b) : b \in BOOLEAN}
        \cup {StringArg(p) : p \in PropertyPaths}
        \cup {ArrayArg(l) : l \in DescriptorLists(MaxDescriptors)}

SortArg1 == {Undefined} \cup {BooleanArg(b) : b \in BOOLEAN}

\* the calls of the model: a list of descriptors comes alone or with a flag
SortCalls ==
    {[arg0 |-> a0, arg1 |-> a1] : a0 \in {a \in SortArg0 : a.t # "array"}, a1 \in SortArg1}
        \cup {[arg0 |-> a0, arg1 |-> a1] :
                a0 \in {a \in SortArg0 : a.t = "array"},
                a1 \in {Undefined, BooleanArg(TRUE)}}

\* the Array.isArray branch: descriptors handed to parent.sortByNames
SortedArrayKeepsFlag(items) ==
    [status |-> "ok",
     descriptors |-> [i \in DOMAIN items |->
        IF items[i].t = "string" THEN [path |-> items[i].s, ascending |-> TRUE]
        ELSE [path |-> items[i].s, ascending |-> items[i].b]]]
SortedArray(items) ==
    [status |-> "ok",
     descriptors |-> [i \in DOMAIN items |->
        IF items[i].t = "string" THEN [path |-> items[i].s, ascending |-> TRUE]
        ELSE [path |-> items[i].s, ascending |-> ~items[i].b]]]

\* sorted(arg0 = "self", arg1)
sorted(arg0, arg1) ==
    LET a0 == IF arg0.t = "undefined" THEN StringArg("self") ELSE arg0
    IN  IF a0.t = "array" THEN SortedArray(a0.items)
        ELSE IF a0.t = "string"
        THEN SortedArray(<<PairArg(a0.s, arg1 = BooleanArg(TRUE))>>)
        ELSE IF a0.t = "boolean" THEN SortedArray(<<PairArg("self", a0.b)>>)
        ELSE [status |-> "error", descriptors |-> <<>>]

\* collection.sorted(arg0, arg1); the log holds a pair of calls
CallSorted ==
    /\ Len(sortLog) < 2
    /\ \E c \in SortCalls :
          sortLog' = Append(sortLog, [arg0 |-> c.arg0, arg1 |-> c.arg1,
                                      result |-> sorted(c.arg0, c.arg1)])
    /\ UNCHANGED <<facadeVars, notifyVars, aggVars, xform>>

(***************************************************************************)
(* min, max, sum, avg: the column, what the binding returns, the dispatch. *)
(***************************************************************************)
DEFAULT_COLUMN_KEY == 0

\* classHelpers.properties.get(name).columnKey of the one property the class has
AgeColumnKey == 1

PropertyNames == {Undefined, StringArg(""), StringArg("age"), StringArg("nope")}

\* getPropertyColumnKey(name)
getPropertyColumnKey(helpers, name) ==
    IF helpers
    THEN IF name.t # "string" THEN [ok |-> FALSE, columnKey |-> 0, error |-> "assert.string"]
         ELSE IF name.s = "age" THEN [ok |-> TRUE, columnKey |-> AgeColumnKey, error |-> ""]
         ELSE [ok |-> FALSE, columnKey |-> 0, error |-> "properties.get"]
    ELSE IF name.t = "string" /\ name.s # ""
    THEN [ok |-> FALSE, columnKey |-> 0,
          error |-> "Cannot get property on a list of primitives"]
    ELSE [ok |-> TRUE, columnKey |-> DEFAULT_COLUMN_KEY, error |-> ""]

\* the forms in which a binding aggregate comes back; the last two are forms
\* the dispatch does not know
Representations ==
    {"number", "bigint", "Float", "Timestamp", "Date", "undefined", "null", "Decimal128"}

AggregateValues == {0, 1, 2}

Native(form, v) == [rep |-> form, v |-> v]

NoNative == Native("none", 0)

\* results.min / max / sum / average(columnKey): on an empty collection min, max
\* and average are undefined and sum is a zero; otherwise the value and its
\* form are the engine's
BindingAggregate(op, r) ==
    IF r = <<>>
    THEN IF op = "sum" THEN {Native(form, 0) : form \in {"number", "bigint", "Float"}}
         ELSE {Native("undefined", 0)}
    ELSE {Native(form, IF form \in {"undefined", "null"} THEN 0 ELSE v) :
            form \in Representations, v \in AggregateValues}

DateValue(v) == [kind |-> "date", n |-> v]

TypeAssertionError == Thrown("TypeAssertionError")

\* min(property), from the result of results.min on
minRejectsUndefined(result) ==
    IF result.rep = "number" THEN NumberValue(result.v)
    ELSE IF result.rep = "bigint" THEN NumberValue(result.v)
    ELSE IF result.rep = "Float" THEN NumberValue(result.v)
    ELSE TypeAssertionError
min(result) ==
    IF result.rep = "Date" THEN DateValue(result.v)
    ELSE IF result.rep = "number" THEN NumberValue(result.v)
    ELSE IF result.rep = "undefined" THEN Absent
    ELSE IF result.rep = "bigint" THEN NumberValue(result.v)
    ELSE IF result.rep = "Float" THEN NumberValue(result.v)
    ELSE IF result.rep = "Timestamp" THEN DateValue(result.v)
    ELSE TypeAssertionError

\* max(property), from the result of results.max on
maxReturnsUnknown(result) ==
    IF result.rep = "Date" THEN DateValue(result.v)
    ELSE IF result.rep = "number" THEN NumberValue(result.v)
    ELSE IF result.rep = "undefined" THEN Absent
    ELSE IF result.rep = "bigint" THEN NumberValue(result.v)
    ELSE IF result.rep = "Float" THEN NumberValue(result.v)
    ELSE IF result.rep = "Timestamp" THEN DateValue(result.v)
    ELSE [kind |-> "raw", n |-> result.v]
max(result) ==
    IF result.rep = "Date" THEN DateValue(result.v)
    ELSE IF result.rep = "number" THEN NumberValue(result.v)
    ELSE IF result.rep = "undefined" THEN Absent
    ELSE IF result.rep = "bigint" THEN NumberValue(result.v)
    ELSE IF result.rep = "Float" THEN NumberValue(result.v)
    ELSE IF result.rep = "Timestamp" THEN DateValue(result.v)
    ELSE TypeAssertionError

\* sum(property), from the result of results.sum on
sum(result) ==
    IF result.rep = "number" THEN NumberValue(result.v)
    ELSE IF result.rep = "bigint" THEN NumberValue(result.v)
    ELSE IF result.rep = "Float" THEN NumberValue(result.v)
    ELSE TypeAssertionError

\* avg(property), from the result of results.average on
avg(result) ==
    IF result.rep = "number" THEN NumberValue(result.v)
    ELSE IF result.rep = "undefined" THEN Absent
    ELSE IF result.rep = "bigint" THEN NumberValue(result.v)
    ELSE IF result.rep = "Float" THEN NumberValue(result.v)
    ELSE TypeAssertionError

NoAggregate ==
    [op |-> "none", property |-> Undefined, resolved |-> FALSE, native |-> NoNative,
     result |-> Absent]

AggregateUnused == classHelpers = FALSE /\ agg = NoAggregate

\* one call: the column is resolved, the binding is asked, the result dispatched
Aggregate(op, property, native) ==
    LET col == getPropertyColumnKey(classHelpers, property)
    IN  IF ~col.ok
        THEN [op |-> op, property |-> property, resolved |-> FALSE,
              native |-> NoNative, result |-> Thrown(col.error)]
        ELSE [op |-> op, property |-> property, resolved |-> TRUE, native |-> native,
              result |-> IF op = "min" THEN min(native)
                         ELSE IF op = "max" THEN max(native)
                         ELSE IF op = "sum" THEN sum(native)
                         ELSE avg(native)]

CallMin ==
    /\ \E property \in PropertyNames, native \in BindingAggregate("min", results) :
          agg' = Aggregate("min", property, native)
    /\ UNCHANGED <<facadeVars, notifyVars, sortLog, classHelpers, xform>>

CallMax ==
    /\ \E property \in PropertyNames, native \in BindingAggregate("max", results) :
          agg' = Aggregate("max", property, native)
    /\ UNCHANGED <<facadeVars, notifyVars, sortLog, classHelpers, xform>>

CallSum ==
    /\ \E property \in PropertyNames, native \in BindingAggregate("sum", results) :
          agg' = Aggregate("sum", property, native)
    /\ UNCHANGED <<facadeVars, notifyVars, sortLog, classHelpers, xform>>

CallAvg ==
    /\ \E property \in PropertyNames, native \in BindingAggregate("avg", results) :
          agg' = Aggregate("avg", property, native)
    /\ UNCHANGED <<facadeVars, notifyVars, sortLog, classHelpers, xform>>

(***************************************************************************)
(* every, some, forEach, map, filter, reduce, find: [...this].method(cb).  *)
(***************************************************************************)
\* the methods that call back on every element, and those that may stop early
FullMethods == {"forEach", "map", "filter", "reduce"}

ShortCircuitMethods == {"every", "some", "find"}

NoTransform ==
    [op |-> "none", array |-> <<>>, origin |-> <<>>, index |-> 0, visited |-> <<>>,
     done |-> FALSE, stopped |-> FALSE]

\* [...this]: the iterator of values() is drained before anything else runs
RECURSIVE SpreadValues(_)
SpreadValues(it) ==
    LET n == ValuesNext(it)
    IN  IF n.done THEN <<>>
        ELSE <<n.value>> \o SpreadValues([it EXCEPT !.index = n.index])

\* the element the array method passes to the callback at an index: an element
\* of the array that [...this] made
ElementAtLive(array, index) == Get(results, index)
ElementAt(array, index) == array[index + 1]

\* collection.map(cb) and the like: the array is made, nothing is visited yet
CallTransform ==
    /\ xform.op = "none" \/ xform.done
    /\ \E op \in FullMethods \cup ShortCircuitMethods :
          LET array == SpreadValues(Values(results))
          IN  xform' = [op |-> op, array |-> array, origin |-> results, index |-> 0,
                        visited |-> <<>>, done |-> array = <<>>, stopped |-> FALSE]
    /\ UNCHANGED <<facadeVars, notifyVars, sortLog, aggVars>>

\* the callback's answer ends every (false), some and find (true) early
Visit(stop) ==
    LET halts == stop /\ xform.op \in ShortCircuitMethods
    IN  [xform EXCEPT !.visited = Append(@, ElementAt(xform.array, xform.index)),
                      !.index = @ + 1,
                      !.stopped = halts,
                      !.done = halts \/ xform.index + 1 >= Len(xform.array)]

\* the array method calls the callback, which leaves the collection alone
Callback ==
    /\ xform.op # "none"
    /\ ~xform.done
    /\ \E stop \in BOOLEAN : xform' = Visit(stop)
    /\ UNCHANGED <<facadeVars, notifyVars, sortLog, aggVars>>

\* the array method calls the callback, which inserts into the collection
CallbackInserts ==
    /\ xform.op # "none"
    /\ ~xform.done
    /\ Len(results) < MaxLen
    /\ \E i \in 0..Len(results), v \in NativeValues : results' = InsertAt(results, i, v)
    /\ \E stop \in BOOLEAN : xform' = Visit(stop)
    /\ UNCHANGED <<ownProps, iter, obs, notifyVars, sortLog, aggVars>>

\* the array method calls the callback, which deletes from the collection
CallbackDeletes ==
    /\ xform.op # "none"
    /\ ~xform.done
    /\ \E i \in 1..Len(results) : results' = RemoveAt(results, i)
    /\ \E stop \in BOOLEAN : xform' = Visit(stop)
    /\ UNCHANGED <<ownProps, iter, obs, notifyVars, sortLog, aggVars>>

\* the array method calls the callback, which replaces an element
CallbackReplaces ==
    /\ xform.op # "none"
    /\ ~xform.done
    /\ \E i \in 1..Len(results) :
          \E v \in NativeValues \ {results[i]} : results' = [results EXCEPT ![i] = v]
    /\ \E stop \in BOOLEAN : xform' = Visit(stop)
    /\ UNCHANGED <<ownProps, iter, obs, notifyVars, sortLog, aggVars>>

(***************************************************************************)
(* Specifications.                                                         *)
(***************************************************************************)
NoObservation == Observation("none", NoKey, 0, Absent, FALSE, <<>>)

FacadeInit ==
    /\ results \in SeqsUpTo(MaxLen)
    /\ ownProps = DeclaredProps
    /\ iter = NoIter
    /\ obs = NoObservation

FacadeUnused ==
    /\ results = <<>>
    /\ ownProps = DeclaredProps
    /\ iter = NoIter
    /\ obs = NoObservation

NotifyInit ==
    /\ listeners = <<>>
    /\ pc = "idle"
    /\ payload = EmptyChanges
    /\ cycleListeners = <<>>
    /\ pos = 1
    /\ invoked = <<>>
    /\ immediates = <<>>
    /\ surfaced = <<>>
    /\ propagated = FALSE
    /\ errSeq = 0
    /\ removed = {}

\* the facade read and written through its proxy
Init == FacadeInit /\ NotifyInit /\ sortLog = <<>> /\ AggregateUnused /\ xform = NoTransform

Next ==
    \/ (BackingInsert /\ UNCHANGED <<notifyVars, sortLog, aggVars, xform>>)
    \/ (BackingDelete /\ UNCHANGED <<notifyVars, sortLog, aggVars, xform>>)
    \/ (BackingReplace /\ UNCHANGED <<notifyVars, sortLog, aggVars, xform>>)
    \/ (IndexedRead /\ UNCHANGED <<notifyVars, sortLog, aggVars, xform>>)
    \/ (IndexedWrite /\ UNCHANGED <<notifyVars, sortLog, aggVars, xform>>)
    \/ (CallGet /\ UNCHANGED <<notifyVars, sortLog, aggVars, xform>>)
    \/ (CallSet /\ UNCHANGED <<notifyVars, sortLog, aggVars, xform>>)
    \/ (ReadLength /\ UNCHANGED <<notifyVars, sortLog, aggVars, xform>>)
    \/ (OwnKeys /\ UNCHANGED <<notifyVars, sortLog, aggVars, xform>>)
    \/ (GetOwnPropertyDescriptor /\ UNCHANGED <<notifyVars, sortLog, aggVars, xform>>)

Spec == Init /\ [][Next]_vars

\* iterators over a Backing Collection that changes
NextIter ==
    \/ (BackingInsert /\ UNCHANGED <<notifyVars, sortLog, aggVars, xform>>)
    \/ (BackingDelete /\ UNCHANGED <<notifyVars, sortLog, aggVars, xform>>)
    \/ (BackingReplace /\ UNCHANGED <<notifyVars, sortLog, aggVars, xform>>)
    \/ (CallKeys /\ UNCHANGED <<notifyVars, sortLog, aggVars, xform>>)
    \/ (CallValues /\ UNCHANGED <<notifyVars, sortLog, aggVars, xform>>)
    \/ (IteratorNext /\ UNCHANGED <<notifyVars, sortLog, aggVars, xform>>)
    \/ (CallGet /\ UNCHANGED <<notifyVars, sortLog, aggVars, xform>>)
    \/ (ReadLength /\ UNCHANGED <<notifyVars, sortLog, aggVars, xform>>)

SpecIter == Init /\ [][NextIter]_vars

\* change notifications
InitNotify == FacadeUnused /\ NotifyInit /\ sortLog = <<>> /\ AggregateUnused /\ xform = NoTransform

NextNotify ==
    \/ (AddListener /\ UNCHANGED <<facadeVars, sortLog, aggVars, xform>>)
    \/ (RemoveListener /\ UNCHANGED <<facadeVars, sortLog, aggVars, xform>>)
    \/ (RemoveAllListeners /\ UNCHANGED <<facadeVars, sortLog, aggVars, xform>>)
    \/ (BeginNotify /\ UNCHANGED <<facadeVars, sortLog, aggVars, xform>>)
    \/ (Deliver /\ UNCHANGED <<facadeVars, sortLog, aggVars, xform>>)
    \/ (EndNotify /\ UNCHANGED <<facadeVars, sortLog, aggVars, xform>>)
    \/ (RunImmediate /\ UNCHANGED <<facadeVars, sortLog, aggVars, xform>>)

SpecNotify == InitNotify /\ [][NextNotify]_vars

\* a delivery runs to completion on one call stack, and the event loop runs
\* every task that setImmediate has queued
FairSpecNotify ==
    /\ SpecNotify
    /\ WF_vars(Deliver /\ UNCHANGED <<facadeVars, sortLog, aggVars, xform>>)
    /\ WF_vars(EndNotify /\ UNCHANGED <<facadeVars, sortLog, aggVars, xform>>)
    /\ SF_vars(RunImmediate /\ UNCHANGED <<facadeVars, sortLog, aggVars, xform>>)

\* the translation of one delivery, over every raw range list
InitTranslate ==
    /\ FacadeUnused
    /\ sortLog = <<>> /\ AggregateUnused /\ xform = NoTransform
    /\ listeners = <<"a">>
    /\ pc = "delivering"
    /\ payload \in TranslatePayloads
    /\ cycleListeners = <<"a">>
    /\ pos = 1
    /\ invoked = <<>>
    /\ immediates = <<>>
    /\ surfaced = <<>>
    /\ propagated = FALSE
    /\ errSeq = 0
    /\ removed = {}

NextTranslate ==
    \/ (Deliver /\ UNCHANGED <<facadeVars, sortLog, aggVars, xform>>)
    \/ (EndNotify /\ UNCHANGED <<facadeVars, sortLog, aggVars, xform>>)
    \/ (RunImmediate /\ UNCHANGED <<facadeVars, sortLog, aggVars, xform>>)

SpecTranslate == InitTranslate /\ [][NextTranslate]_vars

\* sorted() over every call shape
InitSort == FacadeUnused /\ NotifyInit /\ sortLog = <<>> /\ AggregateUnused /\ xform = NoTransform

NextSort == CallSorted

SpecSort == InitSort /\ [][NextSort]_vars

\* min, max, sum, avg on collections of objects and of primitives
InitAggregate ==
    /\ FacadeInit
    /\ NotifyInit
    /\ sortLog = <<>>
    /\ classHelpers \in BOOLEAN
    /\ agg = NoAggregate
    /\ xform = NoTransform

NextAggregate == CallMin \/ CallMax \/ CallSum \/ CallAvg

SpecAggregate == InitAggregate /\ [][NextAggregate]_vars

\* array methods whose callback changes the collection
InitTransform ==
    /\ FacadeInit
    /\ NotifyInit
    /\ sortLog = <<>>
    /\ AggregateUnused
    /\ xform = NoTransform

NextTransform ==
    \/ CallTransform
    \/ Callback
    \/ CallbackInserts
    \/ CallbackDeletes
    \/ CallbackReplaces

SpecTransform == InitTransform /\ [][NextTransform]_vars

(***************************************************************************)
(* Properties.                                                             *)
(***************************************************************************)

\* C1: when a delivery has returned, every listener registered after one that
\* raised was still invoked in that delivery, in its place, with the ChangeSet
\* the raising listener was given.
C1_LaterListenersStillInvoked ==
    pc = "idle" =>
        \A i, j \in DOMAIN cycleListeners :
            (i < j /\ i <= Len(invoked) /\ invoked[i].raised) =>
                /\ j <= Len(invoked)
                /\ invoked[j].listener = cycleListeners[j]
                /\ invoked[j].changes = invoked[i].changes

C1_Witness ==
    /\ pc = "idle"
    /\ Len(cycleListeners) = 2
    /\ Len(invoked) = 2
    /\ invoked[1].raised
    /\ invoked[2].changes.insertions = <<0, 2>>

C3_IteratorFrozenGetLive ==
    /\ iter.kind = "values" =>
          /\ Len(iter.yielded) <= Len(iter.origin)
          /\ \A k \in DOMAIN iter.yielded : iter.yielded[k] = FromBinding(iter.origin[k])
          /\ iter.done => Len(iter.yielded) = Len(iter.origin)
    /\ iter.kind = "keys" =>
          /\ Len(iter.yielded) <= Len(iter.origin)
          /\ \A k \in DOMAIN iter.yielded : iter.yielded[k] = NumberValue(k - 1)
          /\ iter.done => Len(iter.yielded) = Len(iter.origin)
    /\ obs.op = "get" => obs.result = FromBinding(results[obs.index + 1])

C3_Witness ==
    /\ iter.kind = "values"
    /\ iter.done
    /\ Len(iter.yielded) = 2
    /\ Len(results) = 3
    /\ obs.op = "get"
    /\ obs.index = 1
    /\ obs.result # iter.yielded[2]

\* C4: reading the key "i" gives fromBinding of element i when 0 <= i < length,
\* and an absent value, never an error, for "-1" and for i >= length.
C4_IndexedRead ==
    obs.op = "proxyGet" =>
        /\ obs.result.kind # "error"
        /\ \A i \in 0..MaxLen :
              obs.key = IndexKey(i) =>
                  IF i < Len(results) THEN obs.result = FromBinding(results[i + 1])
                  ELSE obs.result = Absent
        /\ obs.key \in {MinusOneKey, TenKey} => obs.result = Absent

C4_Witness ==
    /\ obs.op = "proxyGet"
    /\ Len(results) = 2
    /\ obs.key = IndexKey(2)
    /\ obs.result = Absent

\* C5: a read of length returns the size the Results have at that moment.
C5_LengthIsCurrentSize ==
    obs.op = "length" => obs.result = NumberValue(Len(results))

C5_Witness ==
    /\ obs.op = "length"
    /\ iter.kind = "values"
    /\ Len(iter.origin) = 3
    /\ Len(results) = 1
    /\ obs.result = NumberValue(1)

\* C6: set(index, value) throws for every index and value and leaves the
\* Results as they were.
C6_SetAlwaysFails ==
    obs.op = "set" => (obs.result.kind = "error" /\ results = obs.before)

C6_Witness ==
    /\ obs.op = "set"
    /\ obs.index = 1
    /\ Len(results) = 2
    /\ obs.result.kind = "error"

\* C7 as stated: a write to the key "i" with i >= length does not reach set,
\* raises nothing and leaves the Results alone.
C7_WriteBeyondLengthFallsThrough ==
    obs.op = "proxySet" =>
        \A i \in 0..MaxLen :
            (obs.key = IndexKey(i) /\ i >= Len(obs.before)) =>
                (~obs.routed /\ obs.result.kind # "error" /\ results = obs.before)

\* C7 as amended: a write to the key "i" reaches set for every i >= 0, also
\* for i >= length; on the base collection it throws set's error, adds no
\* property to the target and leaves the Results alone.
C7_WriteBeyondLengthCallsSet ==
    obs.op = "proxySet" =>
        \A i \in 0..MaxLen :
            obs.key = IndexKey(i) =>
                /\ obs.routed
                /\ obs.result = Thrown("Assigning into a collection is not support")
                /\ results = obs.before
                /\ IndexKey(i) \notin Range(ownProps)

C7_Witness ==
    /\ obs.op = "proxySet"
    /\ obs.key = IndexKey(2)
    /\ Len(obs.before) = 1
    /\ obs.routed
    /\ obs.result.kind = "error"

\* C8: the own keys are the target's own property keys and the keys "0" ..
\* "length-1", each once, and each of these index keys has a configurable,
\* enumerable, writable descriptor.
C8_OwnKeys ==
    obs.op = "ownKeys" =>
        /\ Range(obs.result.keys)
              = Range(ownProps) \cup {IndexKey(i) : i \in 0..(Len(results) - 1)}
        /\ NoDuplicates(obs.result.keys)
        /\ \A i \in 0..(Len(results) - 1) :
              ProxyHandlerGetOwnPropertyDescriptor(results, ownProps, IndexKey(i))
                  = [kind |-> "descriptor", configurable |-> TRUE,
                     enumerable |-> TRUE, writable |-> TRUE]

C8_Witness ==
    /\ obs.op = "ownKeys"
    /\ Len(results) = 2
    /\ AbcKey \in Range(ownProps)
    /\ Len(obs.result.keys) = 7

\* what the ranges of a raw list cover, and how many indices that is
Covered(ranges) == UNION {ranges[k][1]..(ranges[k][2] - 1) : k \in DOMAIN ranges}

RECURSIVE SumWidths(_)
SumWidths(ranges) ==
    IF ranges = <<>> THEN 0
    ELSE (Head(ranges)[2] - Head(ranges)[1]) + SumWidths(Tail(ranges))

IsFlattened(out, ranges) ==
    /\ Len(out) = SumWidths(ranges)
    /\ \A i, j \in DOMAIN out : i < j => out[i] < out[j]
    /\ Range(out) = Covered(ranges)

ExampleRanges == <<<<0, 3>>, <<5, 6>>>>

\* C9: each list of the ChangeSet a listener gets is strictly ascending, holds
\* exactly the integers its raw ranges cover, and is as long as the widths of
\* those ranges add up to; [[0,3],[5,6]] gives [0,1,2,5].
C9_RangesUnwound ==
    \A k \in DOMAIN invoked :
        LET c == invoked[k].changes
        IN  /\ IsFlattened(c.insertions, payload.insertions)
            /\ IsFlattened(c.deletions, payload.deletions)
            /\ IsFlattened(c.oldModifications, payload.modifications)
            /\ IsFlattened(c.newModifications, payload.modificationsNew)
            /\ payload.insertions = ExampleRanges => c.insertions = <<0, 1, 2, 5>>

C9_Witness ==
    /\ Len(invoked) = 1
    /\ payload.modificationsNew = ExampleRanges
    /\ payload.modifications = <<<<0, 1>>>>
    /\ invoked[1].changes.newModifications = <<0, 1, 2, 5>>
    /\ invoked[1].changes.oldModifications = <<0>>

\* C10: sorted(p) and sorted(p, false) hand sortByNames what sorted([[p, false]])
\* does, sorted(p, r) what sorted([[p, r]]) does, sorted(r) what
\* sorted([["self", r]]) does; in a list, [p, d] becomes (p, ascending = not d)
\* and a bare p becomes (p, ascending).
C10_SortedCanonical ==
    \A m, n \in DOMAIN sortLog :
        LET x == sortLog[m]
            y == sortLog[n]
        IN  /\ \A p \in PropertyPaths, r \in BOOLEAN :
                  /\ (x.arg0 = StringArg(p) /\ x.arg1 \in {Undefined, BooleanArg(FALSE)}
                        /\ y.arg0 = ArrayArg(<<PairArg(p, FALSE)>>))
                     => x.result = y.result
                  /\ (x.arg0 = StringArg(p) /\ x.arg1 = BooleanArg(r)
                        /\ y.arg0 = ArrayArg(<<PairArg(p, r)>>))
                     => x.result = y.result
                  /\ (x.arg0 = BooleanArg(r) /\ y.arg0 = ArrayArg(<<PairArg("self", r)>>))
                     => x.result = y.result
            /\ x.arg0.t = "array" =>
                  /\ x.result.status = "ok"
                  /\ Len(x.result.descriptors) = Len(x.arg0.items)
                  /\ \A k \in DOMAIN x.arg0.items :
                        LET d == x.arg0.items[k]
                        IN  /\ x.result.descriptors[k].path = d.s
                            /\ x.result.descriptors[k].ascending
                                  = IF d.t = "pair" THEN ~d.b ELSE TRUE

C10_Witness ==
    /\ Len(sortLog) = 2
    /\ sortLog[1].arg0 = StringArg("name")
    /\ sortLog[1].arg1 = BooleanArg(TRUE)
    /\ sortLog[2].arg0 = ArrayArg(<<PairArg("name", TRUE)>>)
    /\ sortLog[2].result.descriptors = <<[path |-> "name", ascending |-> FALSE]>>
    /\ sortLog[1].result = sortLog[2].result

C12_EmptyAggregates ==
    (results = <<>> /\ agg.op # "none" /\ agg.resolved) =>
        /\ agg.result.kind # "error"
        /\ agg.op \in {"min", "max", "avg"} => agg.result = Absent
        /\ agg.op = "sum" => agg.result = NumberValue(0)

C12_Witness ==
    /\ results = <<>>
    /\ agg.op = "sum"
    /\ agg.resolved
    /\ agg.native = Native("bigint", 0)
    /\ agg.result = NumberValue(0)

\* C13: whatever form the binding's aggregate has, the call returns a number, a
\* date or an absent value, or throws a TypeAssertionError; a form the dispatch
\* does not know always ends in the TypeAssertionError.
C13_AggregateDispatch ==
    (agg.op # "none" /\ agg.resolved) =>
        /\ \/ agg.result.kind \in {"number", "date", "absent"}
           \/ agg.result = Thrown("TypeAssertionError")
        /\ agg.native.rep \notin {"number", "bigint", "Float", "Timestamp", "Date",
                                  "undefined"}
              => agg.result = Thrown("TypeAssertionError")
        /\ agg.result.kind = "number" =>
              (agg.native.rep \in {"number", "bigint", "Float"}
                 /\ agg.result.n = agg.native.v)
        /\ agg.result.kind = "date" =>
              (agg.native.rep \in {"Timestamp", "Date"} /\ agg.result.n = agg.native.v)
        /\ agg.result.kind = "absent" => agg.native.rep = "undefined"

C13_Witness ==
    /\ agg.op = "max"
    /\ agg.resolved
    /\ agg.native.rep = "Decimal128"
    /\ agg.result = Thrown("TypeAssertionError")

\* C14: the k-th element an array method passes to its callback is the k-th
\* element the collection had when the method was called, whatever the
\* callback did to the collection meanwhile; a method that ran to its end
\* without the callback stopping it has visited every one of those elements.
C14_VisitsElementsAtCall ==
    xform.op # "none" =>
        /\ Len(xform.visited) <= Len(xform.origin)
        /\ \A k \in DOMAIN xform.visited :
              xform.visited[k] = FromBinding(xform.origin[k])
        /\ (xform.done /\ ~xform.stopped) => Len(xform.visited) = Len(xform.origin)
        /\ xform.op \in FullMethods => ~xform.stopped

C14_Witness ==
    /\ xform.op = "map"
    /\ xform.done
    /\ Len(xform.visited) = 3
    /\ Len(results) = 1
    /\ results[1] # xform.origin[1]

\* C15: for a string key that is not a declared property of the facade, the
\* getOwnPropertyDescriptor trap reports a descriptor if and only if the
\* ownKeys trap enumerates the key, so none for "-1" or "1abc".
C15_DescriptorIffEnumerated ==
    (/\ obs.op = "getOwnPropertyDescriptor"
     /\ obs.key.type = "string"
     /\ ~ReflectHas(ownProps, obs.key)) =>
        (obs.result.kind = "descriptor"
            <=> obs.key \in Range(ProxyHandlerOwnKeys(results, ownProps)))

====
